---- MODULE Spec2Model ----
(***************************************************************************)
(* Bar-by-bar backtesting engine: DataFeed -> Strategy -> SimBroker ->     *)
(* Portfolio (src/scripts/src/backtest/engine.py and the classes it        *)
(* drives).  Python floats are modelled as exact rationals [n, d] in       *)
(* lowest terms with d > 0, so every sum, product and quotient of the code *)
(* is computed exactly; np.log is kept symbolic (see LogReturn).           *)
(***************************************************************************)
EXTENDS Integers, Sequences, FiniteSets, TLC

VARIABLES
    setup,        \* the caller's inputs: rows, cash, broker config, strategy
    df,           \* DataFeed.df: the rows after DataFeed.__init__ sorted them
    config,       \* SimBroker.config
    portfolio,    \* Portfolio: cash, positions, equity_curve, returns
    strategy,     \* Strategy: kind, symbol, has_position, _open_lots, trade_log, summary
    pc,           \* position inside Backtester.run ("aborted": an exception left it)
    runNo,        \* how many times run() was entered on this Backtester
    hist,         \* run local: hist
    idx,          \* run local: number of bars the for loop has completed
    bar,          \* run local: bar
    last_prices,  \* run local: last_prices
    orders,       \* run local: orders
    oi,           \* run local: position of the inner for loop in orders
    fill,         \* run local: fill
    trades,       \* run local: trades
    result,       \* the BacktestResult returned by run(), or NoResult
    calls,        \* history: the calls run() has made, in order
    intents,      \* history: number of orders on_bar returned so far
    oversold      \* history: some SELL exceeded the quantity held

vars == <<setup, df, config, portfolio, strategy, pc, runNo, hist, idx, bar,
          last_prices, orders, oi, fill, trades, result, calls, intents, oversold>>

-----------------------------------------------------------------------------
(* Bounds of the model *)

\* most orders a strategy returns over the lifetime of one strategy object
MaxTrades == 3
\* an order of the arbitrary strategy is for 1 or for MaxQty units
MaxQty == 2

-----------------------------------------------------------------------------
(* Exact arithmetic standing for Python float arithmetic *)

Abs(x) == IF x < 0 THEN -x ELSE x

RECURSIVE GCD(_, _)
GCD(a, b) == IF b = 0 THEN a ELSE GCD(b, a % b)

Rat(n, d) ==
    LET g == GCD(Abs(n), Abs(d))
        s == IF d < 0 THEN -1 ELSE 1
    IN  [n |-> (s * n) \div g, d |-> (s * d) \div g]

RI(k) == [n |-> k, d |-> 1]
RAdd(a, b) == Rat(a.n * b.d + b.n * a.d, a.d * b.d)
RSub(a, b) == Rat(a.n * b.d - b.n * a.d, a.d * b.d)
RMul(a, b) == Rat(a.n * b.n, a.d * b.d)
RDiv(a, b) == Rat(a.n * b.d, a.d * b.n)
RNeg(a) == [n |-> -a.n, d |-> a.d]
RLt(a, b) == a.n * b.d < b.n * a.d
RLe(a, b) == a.n * b.d <= b.n * a.d
RMin(a, b) == IF RLe(a, b) THEN a ELSE b
RMax(a, b) == IF RLe(a, b) THEN b ELSE a
RAbs(a) == [n |-> Abs(a.n), d |-> a.d]
\* int(np.floor(x)) and the quotient of x // y
RFloor(a) == a.n \div a.d

-----------------------------------------------------------------------------
(* Python dict and list helpers *)

EmptyDict == [k \in {} |-> 0]
Get(dict, k, default) == IF k \in DOMAIN dict THEN dict[k] ELSE default
Put(dict, k, v) == [x \in DOMAIN dict \cup {k} |-> IF x = k THEN v ELSE dict[x]]
Last(s) == s[Len(s)]
IsPrefix(s, t) == Len(s) <= Len(t) /\ SubSeq(t, 1, Len(s)) = s

-----------------------------------------------------------------------------
(* lib/types.py *)

Symbols == {"A", "B"}
BUY == "BUY"
SELL == "SELL"
OrderSide_value(side) == IF side = BUY THEN 1 ELSE -1

Order(symbol, side, quantity) ==
    [symbol |-> symbol, side |-> side, quantity |-> quantity]

Fill(symbol, side, quantity, price, timestamp, fee) ==
    [symbol |-> symbol, side |-> side, quantity |-> quantity,
     price |-> price, timestamp |-> timestamp, fee |-> fee]

Bar(timestamp, symbol, close) ==
    [timestamp |-> timestamp, symbol |-> symbol, close |-> close]

NoBar == Bar(0, "", RI(0))
NoFill == Fill("", "", RI(0), RI(0), 0, RI(0))
NoResult == [returned |-> FALSE, equity |-> <<>>, returns |-> <<>>, trades |-> 0]

-----------------------------------------------------------------------------
(* lib/data.py *)

\* the order of str symbols under sort_values
SymRank(s) == IF s = "A" THEN 1 ELSE 2

RowLe(r1, r2) ==
    \/ SymRank(r1.symbol) < SymRank(r2.symbol)
    \/ r1.symbol = r2.symbol /\ r1.timestamp <= r2.timestamp

RECURSIVE InsertRow(_, _)
InsertRow(sorted, r) ==
    IF sorted = <<>> THEN <<r>>
    ELSE IF RowLe(Last(sorted), r) THEN Append(sorted, r)
    ELSE Append(InsertRow(SubSeq(sorted, 1, Len(sorted) - 1), r), Last(sorted))

RECURSIVE SortRows(_)
SortRows(rows) ==
    IF rows = <<>> THEN <<>>
    ELSE InsertRow(SortRows(SubSeq(rows, 1, Len(rows) - 1)), Last(rows))

\* DataFeed.__init__ with a preloaded frame: sort_values(["symbol", "datetime"])
DataFeed_init(rows) == SortRows(rows)

\* DataFeed.history: a copy of the whole frame
DataFeed_history(frame) == frame

\* DataFeed.iter_bars: the generator has a next bar after n bars were yielded
DataFeed_has_next(frame, n) == n < Len(frame)
DataFeed_next(frame, n) == frame[n + 1]

-----------------------------------------------------------------------------
(* execution/simbroker.py *)

SimBrokerConfig(commission_per_order, slippage_bps) ==
    [commission_per_order |-> commission_per_order, slippage_bps |-> slippage_bps]

SimBroker_execute_no_slip(cfg, order, last_price, timestamp) ==
    Fill(order.symbol, order.side, order.quantity, last_price, timestamp,
         cfg.commission_per_order)

SimBroker_execute_fee_per_unit(cfg, order, last_price, timestamp) ==
    LET slip == RMul(last_price, RDiv(cfg.slippage_bps, RI(10000)))
        price == IF order.side = BUY THEN RAdd(last_price, slip)
                 ELSE RSub(last_price, slip)
    IN  Fill(order.symbol, order.side, order.quantity, price, timestamp,
             RMul(cfg.commission_per_order, order.quantity))

SimBroker_execute_flipped(cfg, order, last_price, timestamp) ==
    LET slip == RMul(last_price, RDiv(cfg.slippage_bps, RI(10000)))
        price == IF order.side = BUY THEN RSub(last_price, slip)
                 ELSE RAdd(last_price, slip)
    IN  Fill(order.symbol, order.side, order.quantity, price, timestamp,
             cfg.commission_per_order)

SimBroker_execute(cfg, order, last_price, timestamp) ==
    LET slip == RMul(last_price, RDiv(cfg.slippage_bps, RI(10000)))
        price == IF order.side = BUY THEN RAdd(last_price, slip)
                 ELSE RSub(last_price, slip)
    IN  Fill(order.symbol, order.side, order.quantity, price, timestamp,
             cfg.commission_per_order)

-----------------------------------------------------------------------------
(* lib/portfolio.py *)

Portfolio(cash) ==
    [cash |-> cash, positions |-> EmptyDict, equity_curve |-> <<>>, returns |-> <<>>]

\* np.log(equity / prev), with the values np.log gives outside its domain
Zero == [kind |-> "float", r |-> RI(0)]
NegInf == [kind |-> "-inf", r |-> RI(0)]
NaN == [kind |-> "nan", r |-> RI(0)]
np_log(x) ==
    IF x = RI(1) THEN Zero
    ELSE IF x = RI(0) THEN NegInf
    ELSE IF RLt(x, RI(0)) THEN NaN
    ELSE [kind |-> "log", r |-> x]

LogReturn(equity, prev) ==
    IF prev = RI(0) THEN Zero ELSE np_log(RDiv(equity, prev))

RECURSIVE SumValue(_, _, _)
SumValue(keys, positions, prices) ==
    IF keys = {} THEN RI(0)
    ELSE LET sym == CHOOSE k \in keys : TRUE
         IN  RAdd(RMul(positions[sym], Get(prices, sym, RI(0))),
                  SumValue(keys \ {sym}, positions, prices))

Portfolio_update_mark_to_market_prev_cash(p, prices) ==
    LET equity == RAdd(p.cash, SumValue(DOMAIN p.positions, p.positions, prices))
        prev == IF p.equity_curve # <<>> THEN Last(p.equity_curve) ELSE p.cash
    IN  [p EXCEPT !.equity_curve = Append(@, equity),
                  !.returns = Append(@, LogReturn(equity, prev))]

Portfolio_update_mark_to_market_cash_only(p, prices) ==
    LET equity == p.cash
        prev == IF p.equity_curve # <<>> THEN Last(p.equity_curve) ELSE equity
    IN  [p EXCEPT !.equity_curve = Append(@, equity),
                  !.returns = Append(@, LogReturn(equity, prev))]

Portfolio_update_mark_to_market(p, prices) ==
    LET equity == RAdd(p.cash, SumValue(DOMAIN p.positions, p.positions, prices))
        prev == IF p.equity_curve # <<>> THEN Last(p.equity_curve) ELSE equity
    IN  [p EXCEPT !.equity_curve = Append(@, equity),
                  !.returns = Append(@, LogReturn(equity, prev))]

Portfolio_apply_fill_checked(p, symbol, quantity_delta, price, fee) ==
    LET cost == RAdd(RMul(quantity_delta, price), fee)
    IN  IF RLt(p.cash, cost) THEN p
        ELSE [p EXCEPT !.cash = RSub(@, cost),
                       !.positions = Put(@, symbol,
                                         RAdd(Get(@, symbol, RI(0)), quantity_delta))]

Portfolio_apply_fill_marked(p, symbol, quantity_delta, price, fee) ==
    LET cash == RSub(p.cash, RAdd(RMul(quantity_delta, price), fee))
    IN  [p EXCEPT !.cash = cash,
                  !.positions = Put(@, symbol, RAdd(Get(@, symbol, RI(0)), quantity_delta)),
                  !.equity_curve = Append(@, cash)]

Portfolio_apply_fill(p, symbol, quantity_delta, price, fee) ==
    [p EXCEPT !.cash = RSub(@, RAdd(RMul(quantity_delta, price), fee)),
              !.positions = Put(@, symbol, RAdd(Get(@, symbol, RI(0)), quantity_delta))]

Portfolio_equity_series(p) == p.equity_curve
Portfolio_returns_series(p) == p.returns

-----------------------------------------------------------------------------
(* strategies/base.py *)

Strategy(kind, symbol) ==
    [kind |-> kind, symbol |-> symbol, shares |-> 1, has_position |-> FALSE,
     open_lots |-> EmptyDict, trade_log |-> <<>>,
     summary |-> [set |-> FALSE, num_trades |-> 0, wins |-> 0, losses |-> 0]]

\* Strategy.prepare: the default hook does nothing
Strategy_prepare(s, data) == s

Lot(qty, price, ts) == [qty |-> qty, price |-> price, ts |-> ts]

\* one row of trade_log
TradeRecord(sym, lot, f, take) ==
    [symbol |-> sym, entry_ts |-> lot.ts, exit_ts |-> f.timestamp,
     entry_price |-> lot.price, exit_price |-> f.price, qty |-> take,
     pnl |-> RMul(RSub(f.price, lot.price), take),
     ret |-> RSub(RDiv(f.price, lot.price), RI(1)),
     holding_days |-> f.timestamp - lot.ts]

\* total quantity of a list of open lots
RECURSIVE SumLots(_)
SumLots(lots) == IF lots = <<>> THEN RI(0) ELSE RAdd(Head(lots).qty, SumLots(Tail(lots)))

\* the while loop of on_fill: [lots, log] once it has ended
RECURSIVE MatchFIFO_keep(_, _, _, _, _)
MatchFIFO_keep(lots, qty_to_close, log, sym, f) ==
    IF RLt(RI(0), qty_to_close) /\ lots # <<>>
    THEN LET lot == Head(lots)
             take == RMin(qty_to_close, lot.qty)
         IN  MatchFIFO_keep(Tail(lots), RSub(qty_to_close, take),
                            Append(log, TradeRecord(sym, lot, f, take)), sym, f)
    ELSE [lots |-> lots, log |-> log]

RECURSIVE MatchFIFO_lifo(_, _, _, _, _)
MatchFIFO_lifo(lots, qty_to_close, log, sym, f) ==
    IF RLt(RI(0), qty_to_close) /\ lots # <<>>
    THEN LET lot == Last(lots)
             front == SubSeq(lots, 1, Len(lots) - 1)
             take == RMin(qty_to_close, lot.qty)
             left == RSub(lot.qty, take)
             lots2 == IF left = RI(0) THEN front
                      ELSE Append(front, [lot EXCEPT !.qty = left])
         IN  MatchFIFO_lifo(lots2, RSub(qty_to_close, take),
                            Append(log, TradeRecord(sym, lot, f, take)), sym, f)
    ELSE [lots |-> lots, log |-> log]

RECURSIVE MatchFIFO(_, _, _, _, _)
MatchFIFO(lots, qty_to_close, log, sym, f) ==
    IF RLt(RI(0), qty_to_close) /\ lots # <<>>
    THEN LET lot == Head(lots)
             take == RMin(qty_to_close, lot.qty)
             left == RSub(lot.qty, take)
             lots2 == IF left = RI(0) THEN Tail(lots)
                      ELSE <<[lot EXCEPT !.qty = left]>> \o Tail(lots)
         IN  MatchFIFO(lots2, RSub(qty_to_close, take),
                       Append(log, TradeRecord(sym, lot, f, take)), sym, f)
    ELSE [lots |-> lots, log |-> log]

Strategy_on_fill_short(s, f) ==
    LET sym == f.symbol
        lots == Get(s.open_lots, sym, <<>>)
    IN  IF f.side = BUY
        THEN [s EXCEPT !.open_lots =
                  Put(@, sym, Append(lots, Lot(f.quantity, f.price, f.timestamp)))]
        ELSE LET m == MatchFIFO(lots, f.quantity, s.trade_log, sym, f)
                 rest == RSub(f.quantity, SumLots(lots))
                 lots2 == IF RLt(RI(0), rest)
                          THEN Append(m.lots, Lot(RNeg(rest), f.price, f.timestamp))
                          ELSE m.lots
             IN  [s EXCEPT !.open_lots = Put(@, sym, lots2), !.trade_log = m.log]

Strategy_on_fill(s, f) ==
    LET sym == f.symbol
        lots == Get(s.open_lots, sym, <<>>)
    IN  IF f.side = BUY
        THEN [s EXCEPT !.open_lots =
                  Put(@, sym, Append(lots, Lot(f.quantity, f.price, f.timestamp)))]
        ELSE LET m == MatchFIFO(lots, f.quantity, s.trade_log, sym, f)
             IN  [s EXCEPT !.open_lots = Put(@, sym, m.lots), !.trade_log = m.log]

\* Strategy.finalize: the trade-level summary (the metrics are functions of the
\* return curve alone and leave the portfolio untouched)
Strategy_finalize(s, p) ==
    [s EXCEPT !.summary =
        [set |-> TRUE, num_trades |-> Len(s.trade_log),
         wins |-> Cardinality({i \in DOMAIN s.trade_log : RLt(RI(0), s.trade_log[i].pnl)}),
         losses |-> Cardinality({i \in DOMAIN s.trade_log : RLt(s.trade_log[i].pnl, RI(0))})]]

-----------------------------------------------------------------------------
(* strategies/example.py *)

\* BuyAndHold.on_bar: [strategy, orders]
BuyAndHold_on_bar_shares(s, b, p) ==
    IF ~s.has_position /\ b.symbol = s.symbol
    THEN [strategy |-> [s EXCEPT !.has_position = TRUE],
          orders |-> <<Order(s.symbol, BUY, RI(s.shares))>>]
    ELSE [strategy |-> s, orders |-> <<>>]

BuyAndHold_on_bar(s, b, p) ==
    IF ~s.has_position /\ b.symbol = s.symbol
    THEN [strategy |-> [s EXCEPT !.has_position = TRUE],
          orders |-> <<Order(s.symbol, BUY, RDiv(p.cash, b.close))>>]
    ELSE [strategy |-> s, orders |-> <<>>]

\* Strategy.on_bar of an arbitrary subclass: any list of market orders on the
\* symbols it trades (None is turned into [] by the engine)
OrderAlphabet(universe) ==
    {Order(sym, side, RI(q)) : sym \in universe, side \in {BUY, SELL}, q \in {1, MaxQty}}

Strategy_on_bar(universe, budget) ==
    UNION {[1..k -> OrderAlphabet(universe)] : k \in 0..budget}

-----------------------------------------------------------------------------
(* strategies/sma.py and strategies/reversion_rsi.py: the features prepare  *)
(* computes (moving average, RSI, annualised volatility) reach on_bar as    *)
(* the signal and the raw weight vol_target / max(vol_ann, eps)             *)

\* max_w = 2
max_w == RI(2)
\* the 2% rebalance band
RebalanceBand == Rat(1, 50)
\* values of vol_target / max(vol_ann_t_1, eps)
RawWeights == {Rat(1, 2), RI(3)}

\* sma.py lines 51-53
SMA_w_t(signal_t, w_raw_t) ==
    RMin(max_w, RMax(RI(0), RMul(RI(signal_t), w_raw_t)))

\* sma.py lines 55-73
SMA_size(symbol, w_t, b, p) ==
    LET qty == Get(p.positions, symbol, RI(0))
        equity == RAdd(p.cash, RMul(qty, b.close))
    IN  IF RLe(equity, RI(0)) THEN <<>>
        ELSE LET a_t == RDiv(RMul(qty, b.close), equity)
                 shares_target_t == RI(RFloor(RDiv(RMul(w_t, equity), b.close)))
                 dq_t == RSub(shares_target_t, qty)
                 affordable == RI(RFloor(RDiv(p.cash, b.close)))
                 capped == IF RLt(RI(0), dq_t) THEN RMin(dq_t, affordable) ELSE dq_t
                 side == IF RLt(RI(0), capped) THEN BUY ELSE SELL
             IN  IF RLt(RAbs(RSub(w_t, a_t)), RebalanceBand) THEN <<>>
                 ELSE IF dq_t = RI(0) THEN <<>>
                 ELSE <<Order(symbol, side, RAbs(capped))>>

\* fewest rows of feat up to t for which row t-1 has a finite vol_ann: the
\* sample deviation of vol_window >= 2 log returns, the first of them at row 2
SMA_MinRows == 4

\* SMA.on_bar: the order lists it can return on bar b, feat_len being
\* len(self.feat.loc[:t]); [] stands for the warm-up return (lines 33-34) and
\* the non-finite volatility return (48-49)
SMA_on_bar(s, b, p, feat_len) ==
    IF feat_len < SMA_MinRows THEN {<<>>}
    ELSE
    {<<>>} \cup {SMA_size(s.symbol, SMA_w_t(signal_t, w_raw_t), b, p) :
                    signal_t \in {0, 1}, w_raw_t \in RawWeights}

\* reversion_rsi.py lines 67-73
MR_RSI_w_t(signal_t, w_raw_t) ==
    RMax(RNeg(max_w), RMin(max_w, RMul(RI(signal_t), w_raw_t)))

\* reversion_rsi.py lines 75-100
MR_RSI_size(symbol, w_t, b, p) ==
    LET qty == Get(p.positions, symbol, RI(0))
        equity == RAdd(p.cash, RMul(qty, b.close))
    IN  IF RLe(equity, RI(0)) THEN <<>>
        ELSE LET a_t == RDiv(RMul(qty, b.close), equity)
                 shares_target_t == RI(RFloor(RDiv(RMul(w_t, equity), b.close)))
                 dq_t == RSub(shares_target_t, qty)
                 affordable == RI(RFloor(RDiv(p.cash, b.close)))
                 max_position == RI(RFloor(RDiv(RMul(equity, max_w), b.close)))
                 cap_long_additional == RMax(RI(0), RSub(max_position, qty))
                 long == IF RLt(RI(0), dq_t)
                         THEN RMin(RMin(dq_t, affordable), cap_long_additional)
                         ELSE dq_t
                 capped == IF RLt(long, RI(0))
                           THEN RMax(long, RSub(RNeg(max_position), qty))
                           ELSE long
                 side == IF RLt(RI(0), capped) THEN BUY ELSE SELL
             IN  IF RLt(RAbs(RSub(w_t, a_t)), RebalanceBand) /\ a_t # RI(0) THEN <<>>
                 ELSE IF dq_t = RI(0) THEN <<>>
                 ELSE <<Order(symbol, side, RAbs(capped))>>

\* fewest rows of feat up to t for which row t-1 has a finite vol_ann: the
\* population deviation of vol_window >= 1 log returns, the first at row 2
MR_RSI_MinRows == 3

\* MR_RSI.on_bar: the order lists it can return on bar b, feat_len being
\* len(self.feat.loc[:t]); [] stands for the warm-up return (lines 50-51) and
\* the non-finite volatility return (64-65)
MR_RSI_on_bar(s, b, p, feat_len) ==
    IF feat_len < MR_RSI_MinRows THEN {<<>>}
    ELSE
    {<<>>} \cup {MR_RSI_size(s.symbol, MR_RSI_w_t(signal_t, w_raw_t), b, p) :
                    signal_t \in {-1, 0, 1}, w_raw_t \in RawWeights}

-----------------------------------------------------------------------------
(* The caller: example_run.py, sma_run.py and backtest/benchmark.py build a *)
(* DataFeed, a strategy, a SimBroker and a Backtester, and call run()       *)

RefRows == <<Bar(1, "A", RI(100)), Bar(2, "A", RI(110)), Bar(3, "A", RI(121))>>
MultiRows == <<Bar(1, "B", RI(50)), Bar(1, "A", RI(100)), Bar(2, "A", RI(110))>>
ShortRows == <<Bar(2, "A", RI(110)), Bar(1, "A", RI(100))>>
PairRows == <<Bar(1, "B", RI(50)), Bar(2, "A", RI(110))>>
EmptyRows == <<>>
SizingRows == <<Bar(1, "A", RI(80)), Bar(2, "A", RI(90)), Bar(3, "A", RI(100)),
                Bar(4, "A", RI(100)), Bar(5, "A", RI(110))>>

Setup(rows, cash, commission, bps, kind, symbol, universe, reruns) ==
    [rows |-> rows, cash |-> cash, commission |-> commission, bps |-> bps,
     kind |-> kind, symbol |-> symbol, universe |-> universe, reruns |-> reruns]

\* runs of an arbitrary strategy that keeps the default hooks
AnySetups ==
    { Setup(RefRows, RI(1000), RI(0), RI(0), "Any", "A", {"A"}, FALSE),
      Setup(RefRows, RI(1), RI(1), RI(100), "Any", "A", {"A"}, FALSE),
      Setup(PairRows, RI(0), Rat(1, 2), RI(15), "Any", "A", {"A", "B"}, FALSE),
      Setup(ShortRows, RI(100), RI(0), RI(-100), "Any", "A", {"A"}, TRUE),
      Setup(EmptyRows, RI(1000), RI(0), RI(0), "Any", "A", {"A"}, TRUE) }

\* runs of an arbitrary strategy and broker whose hooks may raise
RaisingSetups ==
    { Setup(ShortRows, RI(100), RI(1), RI(0), "Raising", "A", {"A"}, FALSE) }

\* runs of BuyAndHold
BuyAndHoldSetups ==
    { Setup(rows, RI(cash), RI(cfg[1]), RI(cfg[2]), "BuyAndHold", symbol, {symbol}, reruns) :
        rows \in {RefRows, MultiRows, EmptyRows},
        cash \in {1000, 0, -50},
        cfg \in {<<0, 0>>, <<1, 100>>},
        symbol \in Symbols,
        reruns \in BOOLEAN }

\* runs of the shipped SMA and MR_RSI strategies
SizingSetups ==
    { Setup(SizingRows, RI(cash), RI(0), RI(0), kind, "A", {"A"}, FALSE) :
        cash \in {50, 250}, kind \in {"SMA", "MR_RSI"} }

Setups == AnySetups \cup BuyAndHoldSetups \cup RaisingSetups \cup SizingSetups

-----------------------------------------------------------------------------
(* backtest/engine.py: Backtester.run, one action per statement that calls  *)
(* into the feed, the strategy, the broker or the portfolio                 *)

Call(op, barNo, sym, side, qty, n) ==
    [op |-> op, run |-> runNo, bar |-> barNo, sym |-> sym, side |-> side,
     qty |-> qty, n |-> n]

BacktestResult(equity, returns, t) ==
    [returned |-> TRUE, equity |-> equity, returns |-> returns, trades |-> t]

\* line 46: qty_delta = fill.quantity if fill.side.value == 1 else -fill.quantity
QtyDelta_unsigned(f) == f.quantity

QtyDelta(f) == IF OrderSide_value(f.side) = 1 THEN f.quantity ELSE RNeg(f.quantity)

\* the inner for loop has consumed every order of the bar
OrdersDone_early(os, i) == i > 1 \/ i > Len(os)

OrdersDone(os, i) == i > Len(os)

\* line 41: last_prices[bar.symbol] = bar.close
RecordPrice_only_current(prices, b) == Put(EmptyDict, b.symbol, b.close)

RecordPrice(prices, b) == Put(prices, b.symbol, b.close)

Init ==
    /\ setup \in Setups
    /\ df = DataFeed_init(setup.rows)
    /\ config = SimBrokerConfig(setup.commission, setup.bps)
    /\ portfolio = Portfolio(setup.cash)
    /\ strategy = Strategy(setup.kind, setup.symbol)
    /\ pc = "start"
    /\ runNo = 1
    /\ hist = <<>>
    /\ idx = 0
    /\ bar = NoBar
    /\ last_prices = EmptyDict
    /\ orders = <<>>
    /\ oi = 1
    /\ fill = NoFill
    /\ trades = 0
    /\ result = NoResult
    /\ calls = <<>>
    /\ intents = 0
    /\ oversold = FALSE

\* lines 34-38: hist = history(); strategy.prepare(data); trades = 0; last_prices = {}
Start_fresh ==
    /\ pc = "start"
    /\ hist' = DataFeed_history(df)
    /\ strategy' = Strategy_prepare(Strategy(setup.kind, setup.symbol), df)
    /\ portfolio' = Portfolio(setup.cash)
    /\ trades' = 0
    /\ last_prices' = EmptyDict
    /\ idx' = 0
    /\ calls' = Append(calls, Call("prepare", 0, "", "", RI(0), 0))
    /\ pc' = "loop"
    /\ UNCHANGED <<setup, df, config, runNo, bar, orders, oi, fill,
                   result, intents, oversold>>

Start ==
    /\ pc = "start"
    /\ hist' = DataFeed_history(df)
    /\ strategy' = Strategy_prepare(strategy, df)
    /\ trades' = 0
    /\ last_prices' = EmptyDict
    /\ idx' = 0
    /\ calls' = Append(calls, Call("prepare", 0, "", "", RI(0), 0))
    /\ pc' = "loop"
    /\ UNCHANGED <<setup, df, config, portfolio, runNo, bar, orders, oi, fill,
                   result, intents, oversold>>

\* len(self.feat.loc[:t]): the rows of the strategy's symbol up to bar b
FeatLen(symbol, b) ==
    Cardinality({i \in DOMAIN df : df[i].symbol = symbol /\ df[i].timestamp <= b.timestamp})

\* lines 40-43: the next bar, its close recorded, strategy.on_bar(...) or []
BarStep ==
    /\ pc = "loop"
    /\ DataFeed_has_next(df, idx)
    /\ LET b == DataFeed_next(df, idx)
       IN  /\ bar' = b
           /\ last_prices' = RecordPrice(last_prices, b)
           /\ \/ /\ strategy.kind = "BuyAndHold"
                 /\ LET r == BuyAndHold_on_bar(strategy, b, portfolio)
                    IN  strategy' = r.strategy /\ orders' = r.orders
              \/ /\ strategy.kind = "SMA"
                 /\ orders' \in SMA_on_bar(strategy, b, portfolio, FeatLen(strategy.symbol, b))
                 /\ strategy' = strategy
              \/ /\ strategy.kind = "MR_RSI"
                 /\ orders' \in MR_RSI_on_bar(strategy, b, portfolio,
                                              FeatLen(strategy.symbol, b))
                 /\ strategy' = strategy
              \/ /\ strategy.kind \in {"Any", "Raising"}
                 /\ orders' \in Strategy_on_bar(setup.universe, MaxTrades - intents)
                 /\ strategy' = strategy
    /\ oi' = 1
    /\ intents' = intents + Len(orders')
    /\ calls' = Append(calls, Call("on_bar", idx + 1, bar'.symbol, "", RI(0), Len(orders')))
    /\ pc' = "orders"
    /\ UNCHANGED <<setup, df, config, portfolio, runNo, hist, idx, fill, trades,
                   result, oversold>>

\* line 45: fill = broker.execute(order, last_price=bar.close, timestamp=bar.timestamp)
Execute_own_price ==
    /\ pc = "orders"
    /\ ~OrdersDone(orders, oi)
    /\ fill' = SimBroker_execute(config, orders[oi],
                                 Get(last_prices, orders[oi].symbol, RI(0)), bar.timestamp)
    /\ calls' = Append(calls, Call("execute", idx + 1, orders[oi].symbol,
                                   orders[oi].side, orders[oi].quantity, oi))
    /\ pc' = "apply"
    /\ UNCHANGED <<setup, df, config, portfolio, strategy, runNo, hist, idx, bar,
                   last_prices, orders, oi, trades, result, intents, oversold>>

Execute ==
    /\ pc = "orders"
    /\ ~OrdersDone(orders, oi)
    /\ fill' = SimBroker_execute(config, orders[oi], bar.close, bar.timestamp)
    /\ calls' = Append(calls, Call("execute", idx + 1, orders[oi].symbol,
                                   orders[oi].side, orders[oi].quantity, oi))
    /\ pc' = "apply"
    /\ UNCHANGED <<setup, df, config, portfolio, strategy, runNo, hist, idx, bar,
                   last_prices, orders, oi, trades, result, intents, oversold>>

\* lines 46-47: portfolio.apply_fill(fill.symbol, qty_delta, fill.price, fee=fill.fee)
ApplyFill ==
    /\ pc = "apply"
    /\ portfolio' = Portfolio_apply_fill(portfolio, fill.symbol, QtyDelta(fill),
                                         fill.price, fill.fee)
    /\ oversold' = (oversold \/ (fill.side = SELL /\
                      RLt(Get(portfolio.positions, fill.symbol, RI(0)), fill.quantity)))
    /\ calls' = Append(calls, Call("apply_fill", idx + 1, fill.symbol, fill.side,
                                   QtyDelta(fill), oi))
    /\ pc' = "on_fill"
    /\ UNCHANGED <<setup, df, config, strategy, runNo, hist, idx, bar, last_prices,
                   orders, oi, fill, trades, result, intents>>

\* lines 48-49: strategy.on_fill(fill, portfolio); trades += 1
OnFill ==
    /\ pc = "on_fill"
    /\ strategy' = Strategy_on_fill(strategy, fill)
    /\ trades' = trades + 1
    /\ oi' = oi + 1
    /\ calls' = Append(calls, Call("on_fill", idx + 1, fill.symbol, fill.side,
                                   fill.quantity, oi))
    /\ pc' = "orders"
    /\ UNCHANGED <<setup, df, config, portfolio, runNo, hist, idx, bar, last_prices,
                   orders, fill, result, intents, oversold>>

\* line 51: portfolio.update_mark_to_market(last_prices)
MarkToMarket ==
    /\ pc = "orders"
    /\ OrdersDone(orders, oi)
    /\ portfolio' = Portfolio_update_mark_to_market(portfolio, last_prices)
    /\ idx' = idx + 1
    /\ calls' = Append(calls, Call("update_mark_to_market", idx + 1, "", "", RI(0), 0))
    /\ pc' = "loop"
    /\ UNCHANGED <<setup, df, config, strategy, runNo, hist, bar, last_prices, orders,
                   oi, fill, trades, result, intents, oversold>>

\* line 54, reached from inside the loop only: the stream had at least one bar
Finalize_in_loop ==
    /\ pc = "loop"
    /\ ~DataFeed_has_next(df, idx)
    /\ strategy' = IF idx > 0 THEN Strategy_finalize(strategy, portfolio) ELSE strategy
    /\ calls' = IF idx > 0 THEN Append(calls, Call("finalize", 0, "", "", RI(0), 0))
                ELSE calls
    /\ pc' = "return"
    /\ UNCHANGED <<setup, df, config, portfolio, runNo, hist, idx, bar, last_prices,
                   orders, oi, fill, trades, result, intents, oversold>>

\* line 54: strategy.finalize(portfolio), once the stream is exhausted
Finalize ==
    /\ pc = "loop"
    /\ ~DataFeed_has_next(df, idx)
    /\ strategy' = Strategy_finalize(strategy, portfolio)
    /\ calls' = Append(calls, Call("finalize", 0, "", "", RI(0), 0))
    /\ pc' = "return"
    /\ UNCHANGED <<setup, df, config, portfolio, runNo, hist, idx, bar, last_prices,
                   orders, oi, fill, trades, result, intents, oversold>>

\* lines 56-60: return BacktestResult(equity_series(), returns_series(), trades)
Return ==
    /\ pc = "return"
    /\ result' = BacktestResult(Portfolio_equity_series(portfolio),
                                Portfolio_returns_series(portfolio), trades)
    /\ pc' = "done"
    /\ UNCHANGED <<setup, df, config, portfolio, strategy, runNo, hist, idx, bar,
                   last_prices, orders, oi, fill, trades, calls, intents, oversold>>

\* the caller calls run() again on the same Backtester
Rerun ==
    /\ pc = "done"
    /\ setup.reruns
    /\ runNo = 1
    /\ runNo' = 2
    /\ result' = NoResult
    /\ pc' = "start"
    /\ UNCHANGED <<setup, df, config, portfolio, strategy, hist, idx, bar, last_prices,
                   orders, oi, fill, trades, calls, intents, oversold>>

\* run() has no try/except: an exception raised by a hook leaves run() at once
\* line 35: strategy.prepare raises
RaisePrepare ==
    /\ strategy.kind = "Raising"
    /\ pc = "start"
    /\ hist' = DataFeed_history(df)
    /\ calls' = Append(calls, Call("raise", 0, "prepare", "", RI(0), 0))
    /\ pc' = "aborted"
    /\ UNCHANGED <<setup, df, config, portfolio, strategy, runNo, idx, bar, last_prices,
                   orders, oi, fill, trades, result, intents, oversold>>

\* the handler a try/except around on_bar would be: the bar is skipped
RaiseOnBar_swallowed ==
    /\ strategy.kind = "Raising"
    /\ pc = "loop"
    /\ DataFeed_has_next(df, idx)
    /\ bar' = DataFeed_next(df, idx)
    /\ last_prices' = RecordPrice(last_prices, bar')
    /\ orders' = <<>>
    /\ oi' = 1
    /\ calls' = Append(calls, Call("raise", idx + 1, "on_bar", "", RI(0), 0))
    /\ pc' = "orders"
    /\ UNCHANGED <<setup, df, config, portfolio, strategy, runNo, hist, idx, fill,
                   trades, result, intents, oversold>>

\* line 43: strategy.on_bar raises
RaiseOnBar ==
    /\ strategy.kind = "Raising"
    /\ pc = "loop"
    /\ DataFeed_has_next(df, idx)
    /\ bar' = DataFeed_next(df, idx)
    /\ last_prices' = RecordPrice(last_prices, bar')
    /\ calls' = Append(calls, Call("raise", idx + 1, "on_bar", "", RI(0), 0))
    /\ pc' = "aborted"
    /\ UNCHANGED <<setup, df, config, portfolio, strategy, runNo, hist, idx, orders,
                   oi, fill, trades, result, intents, oversold>>

\* line 45: broker.execute raises
RaiseExecute ==
    /\ strategy.kind = "Raising"
    /\ pc = "orders"
    /\ ~OrdersDone(orders, oi)
    /\ calls' = Append(calls, Call("raise", idx + 1, "execute", "", RI(0), oi))
    /\ pc' = "aborted"
    /\ UNCHANGED <<setup, df, config, portfolio, strategy, runNo, hist, idx, bar,
                   last_prices, orders, oi, fill, trades, result, intents, oversold>>

\* line 48: strategy.on_fill raises, after the fill was applied to the ledger
RaiseOnFill ==
    /\ strategy.kind = "Raising"
    /\ pc = "on_fill"
    /\ calls' = Append(calls, Call("raise", idx + 1, "on_fill", "", RI(0), oi))
    /\ pc' = "aborted"
    /\ UNCHANGED <<setup, df, config, portfolio, strategy, runNo, hist, idx, bar,
                   last_prices, orders, oi, fill, trades, result, intents, oversold>>

\* line 54: strategy.finalize raises
RaiseFinalize ==
    /\ strategy.kind = "Raising"
    /\ pc = "loop"
    /\ ~DataFeed_has_next(df, idx)
    /\ calls' = Append(calls, Call("raise", 0, "finalize", "", RI(0), 0))
    /\ pc' = "aborted"
    /\ UNCHANGED <<setup, df, config, portfolio, strategy, runNo, hist, idx, bar,
                   last_prices, orders, oi, fill, trades, result, intents, oversold>>

Next ==
    \/ Start
    \/ BarStep
    \/ Execute
    \/ ApplyFill
    \/ OnFill
    \/ MarkToMarket
    \/ Finalize
    \/ Return
    \/ Rerun
    \/ RaisePrepare
    \/ RaiseOnBar
    \/ RaiseExecute
    \/ RaiseOnFill
    \/ RaiseFinalize

Spec == Init /\ [][Next]_vars

-----------------------------------------------------------------------------
(* Helpers of the properties *)

Position(sym) == Get(portfolio.positions, sym, RI(0))

\* the close of the most recent bar of sym among the first n bars of this run,
\* RI(0) when there is none
RECURSIVE LastClose(_, _)
LastClose(sym, n) ==
    IF n = 0 THEN RI(0)
    ELSE IF df[n].symbol = sym THEN df[n].close
    ELSE LastClose(sym, n - 1)

CallsOf(op, r) == {i \in DOMAIN calls : calls[i].op = op /\ calls[i].run = r}
CallsOfBar(op, r, k) == {i \in CallsOf(op, r) : calls[i].bar = k}

RECURSIVE SumReturned(_)
SumReturned(is) ==
    IF is = {} THEN 0
    ELSE LET i == CHOOSE x \in is : TRUE IN calls[i].n + SumReturned(is \ {i})

\* position in calls of the latest on_bar call, 0 when there is none
LastOnBar ==
    LET is == {i \in DOMAIN calls : calls[i].op = "on_bar"}
    IN  IF is = {} THEN 0 ELSE CHOOSE i \in is : \A j \in is : j <= i

\* the calls one bar must make for the orders os, in order
ExpectedCalls(os, k) ==
    [j \in 1..(3 * Len(os) + 1) |->
        LET i == ((j - 1) \div 3) + 1
            step == (j - 1) % 3
        IN  IF j = 3 * Len(os) + 1
            THEN Call("update_mark_to_market", k, "", "", RI(0), 0)
            ELSE IF step = 0
            THEN Call("execute", k, os[i].symbol, os[i].side, os[i].quantity, i)
            ELSE IF step = 1
            THEN Call("apply_fill", k, os[i].symbol, os[i].side,
                      IF os[i].side = BUY THEN os[i].quantity
                      ELSE RSub(RI(0), os[i].quantity), i)
            ELSE Call("on_fill", k, os[i].symbol, os[i].side, os[i].quantity, i)]

-----------------------------------------------------------------------------
(* Properties *)

\* C1: the equity appended at each mark-to-market equals the cash at that
\* moment plus, over the held instruments, position quantity times the close
\* of the instrument's most recent bar.
C1_EquityIsCashPlusHoldings ==
    (pc = "loop" /\ idx > 0) =>
        Last(portfolio.equity_curve) =
            RAdd(portfolio.cash,
                 RAdd(RMul(Position("A"), LastClose("A", idx)),
                      RMul(Position("B"), LastClose("B", idx))))

C1_Witness ==
    /\ pc = "loop" /\ idx = 2
    /\ Position("A") # RI(0) /\ Position("B") # RI(0)
    /\ LastClose("A", idx) # RI(0) /\ LastClose("B", idx) # RI(0)

\* C2: with a fresh ledger, update_mark_to_market is called exactly once per
\* bar and only after every order on_bar returned for that bar was executed
\* and applied: after the k-th bar the equity curve has k entries, and no
\* apply_fill of bar k follows bar k's mark-to-market.
C2_MarkOncePerBarAfterFills ==
    runNo = 1 =>
        /\ pc = "loop" =>
              /\ Len(portfolio.equity_curve) = Cardinality(CallsOf("on_bar", 1))
              /\ \A k \in 1..Cardinality(CallsOf("on_bar", 1)) :
                    Cardinality(CallsOfBar("update_mark_to_market", 1, k)) = 1
        /\ pc \in {"orders", "apply", "on_fill"} =>
              Len(portfolio.equity_curve) = Cardinality(CallsOf("on_bar", 1)) - 1
        /\ \A i \in CallsOf("update_mark_to_market", 1) :
              /\ \A j \in CallsOfBar("apply_fill", 1, calls[i].bar) : j < i
              /\ \A j \in CallsOfBar("execute", 1, calls[i].bar) : j < i
              /\ \A b \in CallsOfBar("on_bar", 1, calls[i].bar) :
                    /\ b < i
                    /\ Cardinality(CallsOfBar("apply_fill", 1, calls[i].bar)) = calls[b].n
                    /\ Cardinality(CallsOfBar("execute", 1, calls[i].bar)) = calls[b].n

C2_Witness ==
    /\ runNo = 1 /\ pc = "loop" /\ idx = 2
    /\ Cardinality(CallsOfBar("apply_fill", 1, 1)) = 2
    /\ Cardinality(CallsOfBar("apply_fill", 1, 2)) = 1

\* C3: for each bar the engine consumes the returned intents one-to-one and in
\* order: for each intent one execute, then one apply_fill with delta +quantity
\* for BUY and -quantity for SELL, then one on_fill, intent i finished before
\* intent i+1 starts; the result's trades equals the number of intents
\* returned over the whole run.  (When a hook raises, the calls made up to the
\* exception are still a prefix of that sequence.)
C3_IntentsConsumedInOrder ==
    /\ LastOnBar > 0 =>
          LET seg == SubSeq(calls, LastOnBar + 1, Len(calls))
              exp == ExpectedCalls(orders, calls[LastOnBar].bar)
          IN  /\ calls[LastOnBar].n = Len(orders)
              /\ calls[LastOnBar].run = runNo =>
                    IF pc \in {"orders", "apply", "on_fill"}
                    THEN Len(seg) < Len(exp) /\ IsPrefix(seg, exp)
                    ELSE IF pc = "aborted"
                    THEN LET made == SubSeq(seg, 1, Len(seg) - 1)
                         IN  IsPrefix(made, exp) \/ IsPrefix(exp, made)
                    ELSE IsPrefix(exp, seg)
    /\ pc = "done" => result.trades = SumReturned(CallsOf("on_bar", runNo))

C3_Witness ==
    /\ pc = "done" /\ result.trades = 3
    /\ \E i \in CallsOf("on_bar", runNo) : calls[i].n = 2
    /\ \E i \in CallsOf("apply_fill", runNo) : calls[i].side = SELL

\* C4: with the default on_fill journal, after any sequence of fills in which
\* no SELL exceeded the quantity held, the open FIFO lots of every instrument
\* sum to the ledger's position in it.  (A strategy whose on_fill raised did
\* not run the default journal for that fill.)
C4_OpenLotsMatchPosition ==
    (~oversold /\ pc # "on_fill" /\ ~(\E i \in DOMAIN calls : calls[i].sym = "on_fill" /\ calls[i].op = "raise")) =>
        \A sym \in Symbols :
            SumLots(Get(strategy.open_lots, sym, <<>>)) = Position(sym)

C4_Witness ==
    /\ ~oversold /\ pc = "orders"
    /\ Len(strategy.trade_log) = 2
    /\ Position("A") = RI(1)
    /\ Len(Get(strategy.open_lots, "A", <<>>)) = 1

\* C5: the return curve and the equity curve always have the same length, both
\* only grow by appending, and the first return is 0.0 whatever the initial
\* cash is.
C5_CurvesAppendOnly ==
    /\ [](/\ Len(portfolio.returns) = Len(portfolio.equity_curve)
          /\ Len(portfolio.returns) > 0 => portfolio.returns[1] = Zero)
    /\ [][/\ IsPrefix(portfolio.equity_curve, portfolio.equity_curve')
          /\ IsPrefix(portfolio.returns, portfolio.returns')]_vars

C5_Witness ==
    /\ RLe(setup.cash, RI(0))
    /\ Len(portfolio.returns) >= 2
    /\ portfolio.equity_curve[1] # setup.cash
    /\ portfolio.returns[1] = Zero

\* C6: with positive slippage_bps and a positive reference price a BUY fills at
\* or above the reference price and a SELL at or below it; with slippage_bps 0
\* and commission 0 the fill price is the reference price and the fee is 0.
C6_SlippageDirection ==
    pc = "apply" =>
        /\ (RLt(RI(0), config.slippage_bps) /\ RLt(RI(0), bar.close)) =>
              /\ fill.side = BUY => RLe(bar.close, fill.price)
              /\ fill.side = SELL => RLe(fill.price, bar.close)
        /\ (config.slippage_bps = RI(0) /\ config.commission_per_order = RI(0)) =>
              fill.price = bar.close /\ fill.fee = RI(0)

C6_Witness ==
    /\ pc = "apply"
    /\ RLt(RI(0), config.slippage_bps)
    /\ fill.side = SELL
    /\ RLt(fill.price, bar.close)

\* C7: apply_fill always succeeds, sets cash to cash - (delta * price + fee)
\* and the instrument's position to its old value (0 if absent) plus delta; it
\* never rejects or alters a fill for lack of cash.
C7_ApplyFillUnconditional ==
    [][pc = "apply" =>
            LET delta == IF fill.side = BUY THEN fill.quantity
                         ELSE RSub(RI(0), fill.quantity)
            IN  /\ pc' = "on_fill"
                /\ portfolio'.cash =
                      RSub(portfolio.cash, RAdd(RMul(delta, fill.price), fill.fee))
                /\ fill.symbol \in DOMAIN portfolio'.positions
                /\ portfolio'.positions[fill.symbol] = RAdd(Position(fill.symbol), delta)
         ]_vars

C7_Witness ==
    /\ pc = "on_fill"
    /\ RLe(RI(0), setup.cash)
    /\ RLt(portfolio.cash, RI(0))
    /\ fill.side = BUY

\* C8: reference scenario (closes 100, 110, 121, buy 10 units on the first bar
\* and hold, no slippage or commission, starting cash 1000): the run ends with
\* cash 0, position 10, one fill and equity curve [1000, 1100, 1210], the
\* first return being 0.0.
ReferenceScenario ==
    /\ setup.rows = RefRows /\ setup.cash = RI(1000) /\ setup.kind = "BuyAndHold"
    /\ setup.symbol = "A" /\ setup.commission = RI(0) /\ setup.bps = RI(0)

C8_ReferenceScenario ==
    (ReferenceScenario /\ runNo = 1 /\ pc = "done") =>
        /\ portfolio.cash = RI(0)
        /\ Position("A") = RI(10)
        /\ result.trades = 1
        /\ result.equity = <<RI(1000), RI(1100), RI(1210)>>
        /\ Len(result.returns) = 3
        /\ result.returns[1] = Zero

C8_Witness == ReferenceScenario /\ runNo = 1 /\ pc = "done" /\ result.returned

\* C9 as stated: cost scenario (the reference scenario with commission 1.0 and
\* slippage_bps 100): the buy fills at 101, cash after the fill is -11, and
\* the equity recorded at the first mark-to-market is 999.
CostScenario ==
    /\ setup.rows = RefRows /\ setup.cash = RI(1000) /\ setup.kind = "BuyAndHold"
    /\ setup.symbol = "A" /\ setup.commission = RI(1) /\ setup.bps = RI(100)

C9_CostScenarioAsStated ==
    (CostScenario /\ runNo = 1) =>
        /\ (pc = "on_fill" /\ idx = 0) =>
              fill.price = RI(101) /\ portfolio.cash = RI(-11)
        /\ Len(portfolio.equity_curve) >= 1 => portfolio.equity_curve[1] = RI(999)

\* C9 amended: the buy fills at 101 and cash after the fill is -11, but the
\* equity recorded at the first mark-to-market is 989: the 10 units are valued
\* at the bar's close 100, not at the fill price 101.
C9_CostScenario ==
    (CostScenario /\ runNo = 1) =>
        /\ (pc = "on_fill" /\ idx = 0) =>
              /\ fill.price = RI(101)
              /\ fill.quantity = RI(10)
              /\ portfolio.cash = RI(-11)
        /\ Len(portfolio.equity_curve) >= 1 => portfolio.equity_curve[1] = RI(989)

C9_Witness ==
    /\ CostScenario /\ runNo = 1 /\ pc = "loop" /\ idx = 1
    /\ portfolio.cash = RI(-11)

\* C10: on an empty bar stream run completes without error: on_bar, execute,
\* apply_fill and update_mark_to_market are never called, finalize is called
\* once, and the result has empty curves and trades = 0.
C10_EmptyStream ==
    Len(df) = 0 =>
        /\ \A i \in DOMAIN calls : calls[i].op \in {"prepare", "finalize"}
        /\ pc # "done" => ENABLED Next
        /\ pc \in {"return", "done"} => Cardinality(CallsOf("finalize", runNo)) = 1
        /\ pc = "done" => result = BacktestResult(<<>>, <<>>, 0)

C10_Witness == Len(df) = 0 /\ pc = "done" /\ result.returned

\* C11 as stated: the engine drives a strategy UNINITIALIZED -> READY ->
\* FINALIZED: prepare precedes the first on_bar, on_bar and on_fill happen only
\* between prepare and finalize, finalize follows the last bar's
\* mark-to-market, and after finalize the engine never calls on_bar (or
\* prepare, or on_fill) on that strategy again.
C11_StrategyLifecycle ==
    /\ \A j \in DOMAIN calls :
          calls[j].op \in {"on_bar", "on_fill"} =>
              \E i \in 1..(j - 1) : calls[i].op = "prepare" /\ calls[i].run = calls[j].run
    /\ \A i \in DOMAIN calls :
          calls[i].op = "finalize" =>
              /\ \A j \in CallsOf("update_mark_to_market", calls[i].run) : j < i
              /\ \A j \in DOMAIN calls :
                    j > i => calls[j].op \notin {"prepare", "on_bar", "on_fill"}

\* C12 as stated: the bars run() processes are in non-decreasing timestamp
\* order, whatever the feed holds.
C12_BarsInTimestampOrder ==
    LET n == Cardinality(CallsOf("on_bar", runNo))
    IN  \A i, j \in 1..n : i < j => df[i].timestamp <= df[j].timestamp

\* C13 as stated: at every on_bar call the history handed to the strategy
\* holds no bar with a timestamp later than the bar being processed.
C13_HistoryHasNoFutureBar ==
    pc \in {"orders", "apply", "on_fill"} =>
        \A i \in DOMAIN hist : hist[i].timestamp <= bar.timestamp

\* C14: when prepare, on_bar, execute, on_fill or finalize raises, run() ends
\* there: nothing more is called, nothing is retried, no bar is processed and
\* no BacktestResult is returned.
C14_RaiseAbortsRun ==
    /\ \A i \in DOMAIN calls :
          calls[i].op = "raise" => i = Len(calls) /\ pc = "aborted"
    /\ pc = "aborted" =>
          /\ calls # <<>> /\ Last(calls).op = "raise"
          /\ ~result.returned
          /\ ~ENABLED Next

C14_Witness ==
    /\ pc = "aborted"
    /\ Last(calls).sym = "on_fill"
    /\ idx = 1
    /\ Len(portfolio.equity_curve) = 1
    /\ Position("A") # RI(0)

\* C15 as stated: a malformed execution-cost configuration (negative
\* slippage_bps or negative commission_per_order) is rejected at construction,
\* so no run executes an order under one.
MalformedConfig(cfg) ==
    RLt(cfg.slippage_bps, RI(0)) \/ RLt(cfg.commission_per_order, RI(0))

C15_MalformedConfigRejected ==
    pc \in {"apply", "on_fill"} => ~MalformedConfig(config)

\* C16 as stated: a degenerate return (previous equity 0, or equity/previous
\* zero or negative) is recorded as a non-finite value, never as 0.0.
C16_DegenerateReturnNonFinite ==
    \A i \in 2..Len(portfolio.returns) :
        LET prev == portfolio.equity_curve[i - 1]
            equity == portfolio.equity_curve[i]
        IN  (prev = RI(0) \/ RLe(RDiv(equity, prev), RI(0))) =>
                portfolio.returns[i].kind \in {"-inf", "inf", "nan"}

\* C17: execute returns for every order one Fill with the order's instrument,
\* side and full quantity, the given timestamp, and a fee equal to
\* commission_per_order whatever the quantity, price or side.
C17_FillCarriesOrder ==
    pc = "apply" =>
        /\ Cardinality(CallsOf("execute", runNo)) = trades + 1
        /\ fill.symbol = orders[oi].symbol
        /\ fill.side = orders[oi].side
        /\ fill.quantity = orders[oi].quantity
        /\ fill.timestamp = bar.timestamp
        /\ fill.fee = setup.commission

C17_Witness ==
    /\ pc = "apply"
    /\ fill.side = SELL
    /\ fill.quantity = RI(2)
    /\ fill.fee = RI(1)
    /\ oi = 2

\* C19: in a multi-instrument run each mark-to-market values every held
\* instrument at its own most recent close seen so far; an instrument with no
\* bar seen yet counts 0; within a run a recorded price is only replaced by a
\* later bar of the same instrument.
C19_EveryHoldingRepriced ==
    /\ []((pc = "loop" /\ idx > 0) =>
            /\ \A sym \in Symbols :
                  /\ sym \in DOMAIN last_prices <=> \E i \in 1..idx : df[i].symbol = sym
                  /\ Get(last_prices, sym, RI(0)) = LastClose(sym, idx)
            /\ RSub(Last(portfolio.equity_curve), portfolio.cash) =
                  RAdd(IF "A" \in DOMAIN last_prices
                       THEN RMul(Position("A"), last_prices["A"]) ELSE RI(0),
                       IF "B" \in DOMAIN last_prices
                       THEN RMul(Position("B"), last_prices["B"]) ELSE RI(0)))
    /\ [][pc # "start" =>
            \A sym \in DOMAIN last_prices :
                /\ sym \in DOMAIN last_prices'
                /\ last_prices'[sym] # last_prices[sym] =>
                      /\ bar' = df[idx + 1]
                      /\ bar'.symbol = sym
                      /\ last_prices'[sym] = bar'.close
                      /\ \A i \in 1..idx :
                            df[i].symbol = sym => df[i].timestamp <= bar'.timestamp
         ]_vars

C19_Witness ==
    /\ pc = "loop" /\ idx = 2
    /\ bar.symbol = "B"
    /\ Position("A") # RI(0) /\ Position("B") # RI(0)
    /\ CallsOfBar("execute", runNo, 2) = {}
    /\ portfolio.equity_curve[1] = RAdd(portfolio.cash, RMul(Position("A"), RI(110)))
    /\ portfolio.equity_curve[2] =
          RAdd(portfolio.equity_curve[1], RMul(Position("B"), RI(50)))

\* C20: default on_fill on a SELL of quantity q not above the instrument's
\* open lots closes lots oldest first: one TradeRecord per lot touched (none
\* for q = 0), in lot
\* creation order, quantities summing to q; every lot touched but possibly the
\* last is removed, the last is reduced by the remainder; other instruments'
\* lots and younger lots are unchanged.  A BUY appends one lot at the tail and
\* no TradeRecord.
RECURSIVE SumTradeQty(_, _, _)
SumTradeQty(log, from, to) ==
    IF from > to THEN RI(0) ELSE RAdd(log[from].qty, SumTradeQty(log, from + 1, to))

C20_FifoClosesOldestFirst ==
    [][(pc = "on_fill" /\ pc' = "orders") =>
        LET sym == fill.symbol
            lots == Get(strategy.open_lots, sym, <<>>)
            lots2 == strategy'.open_lots[sym]
            log == strategy.trade_log
            log2 == strategy'.trade_log
            k == Len(log2) - Len(log)
        IN  /\ IsPrefix(log, log2)
            /\ DOMAIN strategy'.open_lots = DOMAIN strategy.open_lots \cup {sym}
            /\ \A other \in DOMAIN strategy.open_lots \ {sym} :
                  strategy'.open_lots[other] = strategy.open_lots[other]
            /\ fill.side = BUY =>
                  /\ k = 0
                  /\ lots2 = Append(lots, Lot(fill.quantity, fill.price, fill.timestamp))
            /\ (fill.side = SELL /\ RLe(fill.quantity, SumLots(lots))) =>
                  /\ k <= Len(lots)
                  /\ k = 0 <=> fill.quantity = RI(0)
                  /\ SumTradeQty(log2, Len(log) + 1, Len(log2)) = fill.quantity
                  /\ \A j \in 1..k :
                        LET rec == log2[Len(log) + j]
                        IN  /\ rec.symbol = sym
                            /\ rec.entry_ts = lots[j].ts
                            /\ rec.entry_price = lots[j].price
                            /\ rec.exit_price = fill.price
                            /\ j < k => rec.qty = lots[j].qty
                            /\ RLe(rec.qty, lots[j].qty)
                  /\ lots2 =
                        IF k = 0 THEN lots
                        ELSE IF log2[Len(log2)].qty = lots[k].qty
                        THEN SubSeq(lots, k + 1, Len(lots))
                        ELSE <<[lots[k] EXCEPT !.qty = RSub(@, log2[Len(log2)].qty)]>>
                             \o SubSeq(lots, k + 1, Len(lots))
      ]_vars

C20_Witness ==
    /\ pc = "orders" /\ fill.side = SELL /\ fill.quantity = RI(2)
    /\ ~oversold
    /\ Len(strategy.trade_log) = 2
    /\ strategy.trade_log[1].qty = RI(1) /\ strategy.trade_log[2].qty = RI(1)
    /\ strategy.trade_log[1].exit_ts = fill.timestamp
    /\ strategy.trade_log[2].exit_ts = fill.timestamp
    /\ Len(strategy.open_lots["A"]) = 1
    /\ strategy.open_lots["A"][1].qty = RI(1)

\* C21: when a SELL fill exceeds the instrument's open lots, default on_fill
\* closes every open lot in full, drops the excess from matching, opens no
\* short lot and ends normally; the ledger has applied the whole SELL, so the
\* position is negative while the instrument's open-lot list is empty.
C21_OversellDropsExcess ==
    [][(pc = "on_fill" /\ pc' = "orders" /\ fill.side = SELL
        /\ RLt(SumLots(Get(strategy.open_lots, fill.symbol, <<>>)), fill.quantity)) =>
        LET sym == fill.symbol
            lots == Get(strategy.open_lots, sym, <<>>)
            log == strategy.trade_log
            log2 == strategy'.trade_log
        IN  /\ strategy'.open_lots[sym] = <<>>
            /\ \A other \in DOMAIN strategy.open_lots \ {sym} :
                  strategy'.open_lots[other] = strategy.open_lots[other]
            /\ IsPrefix(log, log2)
            /\ Len(log2) = Len(log) + Len(lots)
            /\ \A j \in 1..Len(lots) :
                  /\ log2[Len(log) + j].qty = lots[j].qty
                  /\ log2[Len(log) + j].entry_ts = lots[j].ts
            /\ RLt(Position(sym), RI(0))
            /\ portfolio' = portfolio
            /\ trades' = trades + 1
      ]_vars

C21_Witness ==
    /\ pc = "orders" /\ fill.side = SELL /\ fill.quantity = RI(2)
    /\ oi = 3
    /\ Len(strategy.trade_log) = 1
    /\ strategy.trade_log[1].qty = RI(1)
    /\ strategy.trade_log[1].exit_ts = fill.timestamp
    /\ strategy.open_lots["A"] = <<>>
    /\ Position("A") = RI(-1)

\* C22: cash and positions change only in apply_fill: update_mark_to_market
\* leaves cash and every position unchanged; apply_fill leaves the equity
\* curve, the return curve and every other instrument's position unchanged;
\* execute, the default on_fill and the default prepare leave the whole
\* ledger unchanged.
C22_LedgerFrame ==
    [][/\ (portfolio'.cash # portfolio.cash \/ portfolio'.positions # portfolio.positions)
            => (pc = "apply" /\ pc' = "on_fill")
       /\ (pc = "orders" /\ pc' = "loop") =>
            /\ portfolio'.cash = portfolio.cash
            /\ portfolio'.positions = portfolio.positions
       /\ (pc = "apply" /\ pc' = "on_fill") =>
            /\ portfolio'.equity_curve = portfolio.equity_curve
            /\ portfolio'.returns = portfolio.returns
            /\ DOMAIN portfolio'.positions = DOMAIN portfolio.positions \cup {fill.symbol}
            /\ \A sym \in DOMAIN portfolio.positions \ {fill.symbol} :
                  portfolio'.positions[sym] = portfolio.positions[sym]
       /\ (pc = "start" \/ (pc = "orders" /\ pc' = "apply") \/ pc = "on_fill")
            => portfolio' = portfolio
      ]_vars

C22_Witness ==
    /\ pc = "loop" /\ idx = 1
    /\ trades = 2
    /\ fill.symbol = "B"
    /\ Position("A") = RI(1) /\ Position("B") = RI(MaxQty)
    /\ Len(portfolio.equity_curve) = 1
    /\ Len(strategy.open_lots["A"]) = 1

\* C23 as stated: every Order the shipped SMA and MR_RSI strategies return
\* from on_bar has a strictly positive quantity, also when the desired
\* increase is capped by the affordable shares or by the position cap.
C23_OrderQuantityPositive ==
    (strategy.kind \in {"SMA", "MR_RSI"} /\ pc \in {"orders", "apply", "on_fill"}) =>
        \A i \in DOMAIN orders : RLt(RI(0), orders[i].quantity)

\* C24 as stated: BuyAndHold buys the configured number of shares (default 1)
\* on the first bar of its symbol and holds: over a run it returns one order,
\* a BUY of that many shares on that first bar, and [] on every other bar.
C24_BuyAndHoldBuysShares ==
    strategy.kind = "BuyAndHold" =>
        /\ intents <= 1
        /\ (pc \in {"orders", "apply", "on_fill"} /\ orders # <<>>) =>
              /\ orders = <<Order(strategy.symbol, BUY, RI(strategy.shares))>>
              /\ bar.symbol = strategy.symbol
              /\ \A i \in 1..idx : df[i].symbol # strategy.symbol
        /\ (pc = "done" /\ runNo = 1 /\ \E i \in DOMAIN df : df[i].symbol = strategy.symbol)
              => intents = 1

\* C25: every fill of a bar is priced from the close of the bar being
\* processed and stamped with that bar's timestamp, whatever instrument the
\* order names; at the mark-to-market each position is valued at its own
\* instrument's last close so far, or at 0 if it has none.
C25_FillsUseCurrentBar ==
    /\ pc \in {"apply", "on_fill"} =>
          LET current == df[idx + 1]
              slip == RMul(current.close, RDiv(setup.bps, RI(10000)))
          IN  /\ fill.timestamp = current.timestamp
              /\ fill.price = IF fill.side = BUY THEN RAdd(current.close, slip)
                              ELSE RSub(current.close, slip)
    /\ (pc = "loop" /\ idx > 0) =>
          LET own(sym) == IF \E i \in 1..idx : df[i].symbol = sym
                          THEN LastClose(sym, idx) ELSE RI(0)
          IN  Last(portfolio.equity_curve) =
                  RAdd(portfolio.cash,
                       RAdd(RMul(Position("A"), own("A")), RMul(Position("B"), own("B"))))

C25_Witness ==
    /\ pc = "loop" /\ idx = 1
    /\ df[1].symbol = "A"
    /\ trades = 1
    /\ fill.symbol = "B" /\ fill.side = BUY
    /\ fill.timestamp = df[1].timestamp
    /\ fill.price = RAdd(RI(110), RMul(RI(110), RDiv(RI(15), RI(10000))))
    /\ Position("B") = RI(1)
    /\ Last(portfolio.equity_curve) = portfolio.cash

\* C26: run() resets neither the ledger nor the strategy: a second run() on
\* the same Backtester over an N-bar feed starts from the cash, positions,
\* open lots and curves the first run left, so its result's equity and return
\* curves have 2N entries while its trades count covers the second run only.
C26_RerunContinues ==
    /\ [](result.returned =>
            /\ Len(result.equity) = runNo * Len(df)
            /\ Len(result.returns) = runNo * Len(df)
            /\ result.trades = Cardinality(CallsOf("on_fill", runNo)))
    /\ [][(pc \in {"done", "start"}) =>
            /\ portfolio' = portfolio
            /\ strategy' = strategy
            /\ pc' = "loop" => (trades' = 0 /\ idx' = 0 /\ last_prices' = EmptyDict)
         ]_vars

C26_Witness ==
    /\ pc = "done" /\ runNo = 2 /\ result.returned
    /\ Len(df) = 2
    /\ Len(result.equity) = 4
    /\ result.trades = 1
    /\ Cardinality(CallsOf("on_fill", 1)) = 2
    /\ Len(strategy.open_lots["A"]) = 3

====
